---------------------------- MODULE Spec2Model ----------------------------
(***************************************************************************)
(* dso-data-age-anonymizer (src/main.py): a one-pass text filter that      *)
(* finds YYYY-MM-DD shaped tokens with a fixed regular expression and      *)
(* replaces each one by the same date shifted by a random number of days.  *)
(*                                                                         *)
(* Text is a sequence of one-character strings.  A date format is a       *)
(* sequence of items, each a directive ("%Y", "%m", "%d") or a literal     *)
(* character.  The platform modelled is CPython on Linux (glibc strftime,  *)
(* os.linesep = "\n").                                                     *)
(***************************************************************************)
EXTENDS Integers, Sequences, FiniteSets, TLC

(***************************************************************************)
(* Bounds of the model.                                                    *)
(***************************************************************************)
\* the valid --max_shift_days tried (0 is the invalid one)
MaxShift == 1
\* largest number of fragments an input file is built from
MaxFrags == 3

\* an encoding that is None
None == "None"

(***************************************************************************)
(* Characters.                                                             *)
(***************************************************************************)
Digits == <<"0", "1", "2", "3", "4", "5", "6", "7", "8", "9">>

\* regex \d, restricted to the ASCII digits of the model's alphabet
IsDigit(c) == c \in {"0", "1", "2", "3", "4", "5", "6", "7", "8", "9"}

\* int() of one digit
DigitVal(c) ==
    CASE c = "0" -> 0 [] c = "1" -> 1 [] c = "2" -> 2 [] c = "3" -> 3 [] c = "4" -> 4
      [] c = "5" -> 5 [] c = "6" -> 6 [] c = "7" -> 7 [] c = "8" -> 8 [] c = "9" -> 9

\* int() of the digit string s[i..j], given the value n of the digits before
RECURSIVE IntFrom(_, _, _, _)
IntFrom(s, i, j, n) ==
    IF i > j THEN n ELSE IntFrom(s, i + 1, j, 10 * n + DigitVal(s[i]))

\* int() of a digit string
IntOf(s) == IntFrom(s, 1, Len(s), 0)

\* str() of a natural number (no padding)
RECURSIVE StrOf(_)
StrOf(n) ==
    IF n < 10 THEN <<Digits[n + 1]>>
    ELSE StrOf(n \div 10) \o <<Digits[(n % 10) + 1]>>

\* "%02d" % n
Pad2(n) == <<Digits[(n \div 10) + 1], Digits[(n % 10) + 1]>>

(***************************************************************************)
(* The proleptic Gregorian calendar of datetime.date.                      *)
(***************************************************************************)
IsLeap(y) == y % 4 = 0 /\ (y % 100 # 0 \/ y % 400 = 0)

DaysInMonth(y, m) ==
    IF m = 2 THEN (IF IsLeap(y) THEN 29 ELSE 28)
    ELSE IF m \in {4, 6, 9, 11} THEN 30 ELSE 31

DaysBeforeYear(y) ==
    (y - 1) * 365 + ((y - 1) \div 4) - ((y - 1) \div 100) + ((y - 1) \div 400)

\* the days of the year before the first of month m
DaysBeforeMonth(y, m) ==
    <<0, 31, 59, 90, 120, 151, 181, 212, 243, 273, 304, 334>>[m]
        + (IF m > 2 /\ IsLeap(y) THEN 1 ELSE 0)

\* date.toordinal(): 0001-01-01 is day 1
Ymd2Ord(y, m, d) == DaysBeforeYear(y) + DaysBeforeMonth(y, m) + d

MinYear == 1
MaxYear == 9999
MaxOrdinal == Ymd2Ord(MaxYear, 12, 31)

\* the year holding ordinal n
YearOfOrd(n) ==
    LET n0   == n - 1
        n400 == n0 \div 146097
        r400 == n0 % 146097
        n100 == r400 \div 36524
        r100 == r400 % 36524
        n4   == r100 \div 1461
        r4   == r100 % 1461
        n1   == r4 \div 365
        y    == n400 * 400 + n100 * 100 + n4 * 4 + n1 + 1
    IN  IF n1 = 4 \/ n100 = 4 THEN y - 1 ELSE y

\* date.fromordinal(n): the month is estimated from the day of the year
\* and corrected when the estimate is one too high
MonthOfDay(y, doy) ==
    LET est == (doy + 49) \div 32
    IN  IF DaysBeforeMonth(y, est) >= doy THEN est - 1 ELSE est

Ord2Ymd(n) ==
    LET y   == YearOfOrd(n)
        doy == n - DaysBeforeYear(y)
        m   == MonthOfDay(y, doy)
    IN  [year |-> y, month |-> m, day |-> doy - DaysBeforeMonth(y, m)]

(***************************************************************************)
(* The values of --date_format tried: the default, one no token of the     *)
(* scanner's shape satisfies, and one some of them satisfy.                *)
(***************************************************************************)
FmtDefault == <<"%Y", "-", "%m", "-", "%d">>
FmtSlash   == <<"%d", "/", "%m", "/", "%Y">>
FmtSwapped == <<"%Y", "-", "%d", "-", "%m">>

Formats == {FmtDefault, FmtSlash, FmtSwapped}

(***************************************************************************)
(* datetime.datetime.strptime(date_str, date_format).date()                *)
(* _strptime turns the format into a regular expression: %Y is            *)
(* \d\d\d\d, %m is 1[0-2]|0[1-9]|[1-9], %d is 3[01]|[12]\d|0[1-9]|[1-9],    *)
(* any other character matches itself, and the whole string must be        *)
(* consumed.  The formats of the model all carry %Y, %m and %d.            *)
(***************************************************************************)
IsDirective(item) == item \in {"%Y", "%m", "%d"}

AllDigits(s) == \A i \in 1..Len(s) : IsDigit(s[i])

\* the field widths a directive's alternatives try, in regex order
Widths(item) == IF item = "%Y" THEN <<4>> ELSE <<2, 1>>

FieldMatches(item, s) ==
    /\ AllDigits(s)
    /\ CASE item = "%Y" -> Len(s) = 4
         [] item = "%m" -> IF Len(s) = 2 THEN IntOf(s) \in 1..12 ELSE IntOf(s) \in 1..9
         [] item = "%d" -> IF Len(s) = 2 THEN IntOf(s) \in 1..31 ELSE IntOf(s) \in 1..9

ParseFail == [ok |-> FALSE, year |-> 0, month |-> 0, day |-> 0]

SetField(acc, item, v) ==
    CASE item = "%Y" -> [acc EXCEPT !.year = v]
      [] item = "%m" -> [acc EXCEPT !.month = v]
      [] item = "%d" -> [acc EXCEPT !.day = v]

\* match s[i..] against date_format[j..], backtracking over field widths
RECURSIVE RegexParse(_, _, _, _, _)
RegexParse(s, i, fmt, j, acc) ==
    IF j > Len(fmt) THEN (IF i > Len(s) THEN acc ELSE ParseFail)
    ELSE IF IsDirective(fmt[j]) THEN
        LET try(w) ==
                IF i + w - 1 <= Len(s) /\ FieldMatches(fmt[j], SubSeq(s, i, i + w - 1))
                THEN RegexParse(s, i + w, fmt, j + 1,
                                SetField(acc, fmt[j], IntOf(SubSeq(s, i, i + w - 1))))
                ELSE ParseFail
            ws == Widths(fmt[j])
            first == try(ws[1])
        IN  IF first.ok \/ Len(ws) = 1 THEN first ELSE try(ws[2])
    ELSE IF i <= Len(s) /\ s[i] = fmt[j]
         THEN RegexParse(s, i + 1, fmt, j + 1, acc)
         ELSE ParseFail

\* the construction of the date from the matched fields, which raises
\* ValueError for year 0 and for a day the month does not have
DateOf(r) ==
    IF r.ok /\ r.year >= MinYear /\ r.year <= MaxYear
       /\ r.day <= DaysInMonth(r.year, r.month)
    THEN r ELSE ParseFail

ParseStart == [ok |-> TRUE, year |-> 1900, month |-> 1, day |-> 1]

StrptimeFixedFormat(date_str, date_format) ==
    DateOf(RegexParse(date_str, 1, FmtDefault, 1, ParseStart))

Strptime(date_str, date_format) ==
    DateOf(RegexParse(date_str, 1, date_format, 1, ParseStart))

(***************************************************************************)
(* date.strftime(date_format): glibc renders %Y without padding, so a      *)
(* year below 1000 comes out with fewer than four digits.                  *)
(***************************************************************************)
RenderItem(d, item) ==
    CASE item = "%Y" -> StrOf(d.year)
      [] item = "%m" -> Pad2(d.month)
      [] item = "%d" -> Pad2(d.day)
      [] OTHER -> <<item>>

RECURSIVE Strftime(_, _)
Strftime(d, date_format) ==
    IF Len(date_format) = 0 THEN <<>>
    ELSE RenderItem(d, Head(date_format)) \o Strftime(d, Tail(date_format))

(***************************************************************************)
(* random_state.randint(a, b): a value of the closed interval a..b.        *)
(***************************************************************************)
RandintRangeOpen(a, b) == a..(b + 1)

RandintRange(a, b) == a..b

(***************************************************************************)
(* shift_date, given the value v that random_state.randint returns if it   *)
(* is called.  some/text is the returned string (some = FALSE for None);   *)
(* drew tells whether randint was called; orig, shift and shifted are the  *)
(* ordinal of the parsed date, the drawn shift and the ordinal of the sum. *)
(***************************************************************************)
ShiftDateDrawFirst(date_str, max_shift_days, date_format, v) ==
    LET p == Strptime(date_str, date_format)
        o == IF p.ok THEN Ymd2Ord(p.year, p.month, p.day) + v ELSE 0
        fits == p.ok /\ 0 < o /\ o <= MaxOrdinal
    IN  [some |-> fits,
         text |-> IF fits THEN Strftime(Ord2Ymd(o), date_format) ELSE <<>>,
         drew |-> TRUE, parsed |-> p.ok,
         orig |-> IF p.ok THEN o - v ELSE 0,
         shift |-> IF p.ok THEN v ELSE 0,
         shifted |-> IF fits THEN o ELSE 0]

ShiftDateOverflowNoDraw(date_str, max_shift_days, date_format, v) ==
    LET p == Strptime(date_str, date_format)
        o == IF p.ok THEN Ymd2Ord(p.year, p.month, p.day) + v ELSE 0
        fits == p.ok /\ 0 < o /\ o <= MaxOrdinal
    IN  [some |-> fits,
         text |-> IF fits THEN Strftime(Ord2Ymd(o), date_format) ELSE <<>>,
         drew |-> fits, parsed |-> p.ok,
         orig |-> IF p.ok THEN o - v ELSE 0,
         shift |-> IF fits THEN v ELSE 0,
         shifted |-> IF fits THEN o ELSE 0]

ShiftDate(date_str, max_shift_days, date_format, v) ==
    LET p == Strptime(date_str, date_format)
    IN  IF ~p.ok
        THEN \* ValueError from strptime: warning, return None (lines 57-59)
             [some |-> FALSE, text |-> <<>>, drew |-> FALSE, parsed |-> FALSE,
              orig |-> 0, shift |-> 0, shifted |-> 0]
        ELSE
          LET orig == Ymd2Ord(p.year, p.month, p.day)
              o    == orig + v
          IN  IF 0 < o /\ o <= MaxOrdinal
              THEN [some |-> TRUE, text |-> Strftime(Ord2Ymd(o), date_format),
                    drew |-> TRUE, parsed |-> TRUE,
                    orig |-> orig, shift |-> v, shifted |-> o]
              ELSE \* OverflowError from date + timedelta: error, None (60-62)
                   [some |-> FALSE, text |-> <<>>, drew |-> TRUE, parsed |-> TRUE,
                    orig |-> orig, shift |-> v, shifted |-> 0]

(***************************************************************************)
(* date_regex = \d{4}-\d{2}-\d{2} and date_regex.sub(replace_date, line)   *)
(***************************************************************************)
TokenLen == 10

\* does the regex match at position i of line
MatchAt(line, i) ==
    /\ i + TokenLen - 1 <= Len(line)
    /\ \A k \in {0, 1, 2, 3, 5, 6, 8, 9} : IsDigit(line[i + k])
    /\ line[i + 4] = "-"
    /\ line[i + 7] = "-"

ReplaceDateNoFallback(date_str, max_shift_days, date_format, v) ==
    LET r == ShiftDate(date_str, max_shift_days, date_format, v)
    IN  [text |-> r.text, info |-> r]

\* replace_date: the shifted date, or the matched text when shift_date
\* returned None (or an empty string)
ReplaceDate(date_str, max_shift_days, date_format, v) ==
    LET r == ShiftDate(date_str, max_shift_days, date_format, v)
    IN  [text |-> IF r.some /\ r.text # <<>> THEN r.text ELSE date_str,
         info |-> r]

\* The record of one match: the matched text, the text written for it, and
\* what shift_date did; draw is the index of the value it consumed, or 0.
MatchRecord(tok, rep, used) ==
    [tok |-> tok, out |-> rep.text, parsed |-> rep.info.parsed,
     drew |-> rep.info.drew, orig |-> rep.info.orig, shift |-> rep.info.shift,
     shifted |-> rep.info.shifted,
     draw |-> IF rep.info.drew THEN used + 1 ELSE 0]

\* The scan state after the match tok at position i was replaced by rep.
AfterMatch(acc, tok, rep, i) ==
    [text |-> acc.text \o rep.text,
     used |-> IF rep.info.drew THEN acc.used + 1 ELSE acc.used,
     matches |-> Append(acc.matches, MatchRecord(tok, rep, acc.used)),
     next |-> i + TokenLen]

\* One step of the scan at position i: a match is replaced, any other
\* character is copied.
SubStep(line, i, max_shift_days, date_format, vs, acc) ==
    IF MatchAt(line, i) THEN
        LET tok == SubSeq(line, i, i + TokenLen - 1)
            v   == IF acc.used + 1 <= Len(vs) THEN vs[acc.used + 1] ELSE 0
        IN  AfterMatch(acc, tok, ReplaceDate(tok, max_shift_days, date_format, v), i)
    ELSE [text |-> Append(acc.text, line[i]), used |-> acc.used,
          matches |-> acc.matches, next |-> i + 1]

\* Scan line from position acc.next on.  vs holds the values the random
\* stream gives next; acc.used counts those consumed so far.  Returns the
\* substituted text, the number of values consumed and one record per match.
RECURSIVE SubFrom(_, _, _, _, _)
SubFrom(line, max_shift_days, date_format, vs, acc) ==
    IF acc.next > Len(line) THEN acc
    ELSE SubFrom(line, max_shift_days, date_format, vs,
                 SubStep(line, acc.next, max_shift_days, date_format, vs, acc))

\* date_regex.sub(replace_date, line)
Sub(line, max_shift_days, date_format, vs) ==
    SubFrom(line, max_shift_days, date_format, vs,
            [text |-> <<>>, used |-> 0, matches |-> <<>>, next |-> 1])

\* how many values of the stream the substitution of line consumes
DrawsIn(line, max_shift_days, date_format) ==
    Sub(line, max_shift_days, date_format, <<>>).used

(***************************************************************************)
(* Text-mode file I/O with the default newline=None.                       *)
(* Reading: "\r\n" and a lone "\r" are translated to "\n", and a line ends *)
(* after each "\n".  Writing: "\n" is translated to os.linesep.            *)
(***************************************************************************)
RECURSIVE SplitLines(_, _, _)
SplitLines(text, i, cur) ==
    IF i > Len(text) THEN (IF cur = <<>> THEN <<>> ELSE <<cur>>)
    ELSE IF text[i] = "\r" THEN
        <<cur \o <<"\n">>>> \o
        SplitLines(text, IF i < Len(text) /\ text[i + 1] = "\n" THEN i + 2 ELSE i + 1, <<>>)
    ELSE IF text[i] = "\n" THEN <<cur \o <<"\n">>>> \o SplitLines(text, i + 1, <<>>)
    ELSE SplitLines(text, i + 1, cur \o <<text[i]>>)

\* the lines that iterating over infile yields
ReadLines(content) == SplitLines(content, 1, <<>>)

LineSep == <<"\n">>

RECURSIVE WriteText(_)
WriteText(s) ==
    IF Len(s) = 0 THEN <<>>
    ELSE (IF Head(s) = "\n" THEN LineSep ELSE <<Head(s)>>) \o WriteText(Tail(s))

(***************************************************************************)
(* detect_encoding: what it returns and what it logs.  chardet.detect      *)
(* gives None for empty data and a label for the texts tried here; when    *)
(* the open or the read raises (a directory, a file that cannot be read)   *)
(* the handler logs the error and None is returned.                        *)
(***************************************************************************)
DetectEncoding(file) ==
    {[encoding |-> IF file.content = <<>> THEN None ELSE "ascii", log |-> {}],
     [encoding |-> None, log |-> {"ERROR error detecting encoding"}]}

(***************************************************************************)
(* The inputs tried.                                                       *)
(***************************************************************************)
\* a leap day: a valid date whose neighbours are in other months
TokLeap == <<"2", "0", "2", "4", "-", "0", "2", "-", "2", "9">>
\* shaped like a date, but February has no 30th
TokImpossible == <<"2", "0", "2", "3", "-", "0", "2", "-", "3", "0">>
\* the first representable day: the day before it does not exist, and its
\* year has fewer than four digits
TokFirst == <<"0", "0", "0", "1", "-", "0", "1", "-", "0", "1">>

Tokens == {TokLeap, TokImpossible, TokFirst}

\* a date token, text ending an LF line, or a CRLF line terminator
Fragments == Tokens \cup {<<"x", "\n">>, <<"\r", "\n">>}

RECURSIVE Texts(_)
Texts(n) ==
    IF n = 0 THEN {<<>>}
    ELSE LET prev == Texts(n - 1)
         IN  prev \cup {t \o f : t \in prev, f \in Fragments}

\* a seed is <<>> (None) or <<n>>
Seeds == {<<>>, <<42>>}

NoFile == [exists |-> FALSE, content |-> <<>>]

(***************************************************************************)
(* State.                                                                  *)
(***************************************************************************)
VARIABLES
    max_shift_days,  \* args.max_shift_days
    seed,            \* args.seed
    date_format,     \* args.date_format
    same_path,       \* whether output_file is the path input_file
    inFile,          \* the file at input_file
    outFile,         \* the file at output_file (inFile's when same_path)
    pc,              \* where the run is
    encoding,        \* the encoding parameter: args.encoding, then the detected one
    infile,          \* the input handle: "unopened", "open", "closed"
    outfile,         \* the output handle
    pending,         \* the lines infile has not yielded yet
    drawn,           \* how many values random_state has given
    tape,            \* the values the generator has given; Random(seed) gives them again
    log,             \* the messages logged
    matches,         \* one record per regex match processed, in order
    run,             \* 1 for the first run, 2 for a repetition
    first            \* the outcome of the first run, once it is repeated

vars == <<max_shift_days, seed, date_format, same_path, inFile, outFile, pc,
          encoding, infile, outfile, pending, drawn, tape, log, matches, run, first>>

args == <<max_shift_days, seed, date_format, same_path>>

config == <<args, inFile>>

Init ==
    /\ max_shift_days \in {0, MaxShift}
    /\ seed \in Seeds
    /\ date_format \in Formats
    /\ inFile \in {NoFile} \cup {[exists |-> TRUE, content |-> t] : t \in Texts(MaxFrags)}
    /\ same_path \in BOOLEAN
    /\ outFile \in IF same_path THEN {inFile}
                   ELSE {NoFile, [exists |-> TRUE, content |-> <<"o", "l", "d">>]}
    /\ pc = "main"
    /\ encoding \in {None, "ascii"}
    /\ infile = "unopened"
    /\ outfile = "unopened"
    /\ pending = <<>>
    /\ drawn = 0
    /\ tape = <<>>
    /\ log = {}
    /\ matches = <<>>
    /\ run = 1
    /\ first = [done |-> FALSE, success |-> FALSE, content |-> <<>>, matches |-> <<>>]

(***************************************************************************)
(* main: the validation of max_shift_days, then the call of anonymize_data *)
(***************************************************************************)
Validate ==
    /\ pc = "main"
    /\ IF max_shift_days <= 0
       THEN /\ log' = log \cup {"ERROR max_shift_days must be a positive integer"}
            /\ pc' = "exit"
       ELSE /\ pc' = "anonymize"
            /\ UNCHANGED log
    /\ UNCHANGED <<config, outFile, encoding, infile, outfile, pending, drawn, tape,
                   matches, run, first>>

(***************************************************************************)
(* anonymize_data: os.path.exists(input_file)                              *)
(***************************************************************************)
CheckInput ==
    /\ pc = "anonymize"
    /\ IF ~inFile.exists
       THEN /\ log' = log \cup {"ERROR input file not found"}
            /\ pc' = "exit"
       ELSE /\ pc' = "encoding"
            /\ UNCHANGED log
    /\ UNCHANGED <<config, outFile, encoding, infile, outfile, pending, drawn, tape,
                   matches, run, first>>

(***************************************************************************)
(* anonymize_data: the encoding given, or the one detected                 *)
(***************************************************************************)
ResolveEncodingAfterOpen ==
    /\ pc = "encoding"
    /\ outFile' = [exists |-> TRUE, content |-> <<>>]
    /\ IF encoding # None
       THEN /\ encoding' = encoding
            /\ pc' = "open_in"
            /\ UNCHANGED log
       ELSE \E det \in DetectEncoding(inFile) :
            /\ encoding' = det.encoding
            /\ IF det.encoding = None
               THEN /\ log' = log \cup det.log
                                  \cup {"ERROR could not detect file encoding"}
                    /\ pc' = "exit"
               ELSE /\ pc' = "open_in"
                    /\ log' = log \cup det.log
    /\ UNCHANGED <<config, infile, outfile, pending, drawn, tape, matches, run, first>>

ResolveEncoding ==
    /\ pc = "encoding"
    /\ IF encoding # None
       THEN /\ encoding' = encoding
            /\ pc' = "open_in"
            /\ UNCHANGED log
       ELSE \E det \in DetectEncoding(inFile) :
            /\ encoding' = det.encoding
            /\ IF det.encoding = None
               THEN /\ log' = log \cup det.log
                                  \cup {"ERROR could not detect file encoding"}
                    /\ pc' = "exit"
               ELSE /\ pc' = "open_in"
                    /\ log' = log \cup det.log
    /\ UNCHANGED <<config, outFile, infile, outfile, pending, drawn, tape,
                   matches, run, first>>

(***************************************************************************)
(* with open(input_file, 'r', ...) as infile                               *)
(***************************************************************************)
OpenInput ==
    /\ pc = "open_in"
    /\ infile' = "open"
    /\ pending' = ReadLines(inFile.content)
    /\ pc' = "open_out"
    /\ UNCHANGED <<config, outFile, encoding, outfile, drawn, tape, log,
                   matches, run, first>>

\* open raises (the file cannot be read, the encoding is unknown): the
\* handler of line 107 logs the error
OpenInputFails ==
    /\ pc = "open_in"
    /\ log' = log \cup {"ERROR during anonymization"}
    /\ pc' = "exit"
    /\ UNCHANGED <<config, outFile, encoding, infile, outfile, pending, drawn, tape,
                   matches, run, first>>

(***************************************************************************)
(* open(output_file, 'w', ...) as outfile, then random.Random(seed).       *)
(* The open truncates the file.  infile has read nothing yet: when         *)
(* output_file is input_file it is the input that is truncated, and the    *)
(* loop finds no line in it.                                               *)
(***************************************************************************)
OpenOutput ==
    /\ pc = "open_out"
    /\ outFile' = [exists |-> TRUE, content |-> <<>>]
    /\ inFile' = IF same_path THEN outFile' ELSE inFile
    /\ pending' = IF same_path THEN ReadLines(inFile'.content) ELSE pending
    /\ outfile' = "open"
    /\ drawn' = 0
    /\ pc' = "loop"
    /\ UNCHANGED <<args, encoding, infile, tape, log, matches, run, first>>

OpenOutputFailsLeak ==
    /\ pc = "open_out"
    /\ log' = log \cup {"ERROR during anonymization"}
    /\ pc' = "exit"
    /\ UNCHANGED <<config, outFile, encoding, infile, outfile, pending, drawn, tape,
                   matches, run, first>>

\* the second open raises: the with statement closes infile, line 107 logs
OpenOutputFails ==
    /\ pc = "open_out"
    /\ infile' = "closed"
    /\ log' = log \cup {"ERROR during anonymization"}
    /\ pc' = "exit"
    /\ UNCHANGED <<config, outFile, encoding, outfile, pending, drawn, tape,
                   matches, run, first>>

(***************************************************************************)
(* One iteration of `for line in infile`: substitute, then write.  (There  *)
(* is an iteration only when the two paths differ: inFile is not written.) *)
(* The values randint gives are those of the tape where the seeded         *)
(* generator's values are already known, and any value of the range        *)
(* otherwise; an unseeded generator gives any value of the range.          *)
(***************************************************************************)
Seeded == seed # <<>>

NextValuesUnseeded(p) == RandintRange(-max_shift_days, max_shift_days)

\* what the p-th call of random_state.randint can return: the value the
\* seeded generator is known to give there, else any value of the range
NextValues(p) ==
    IF Seeded /\ p <= Len(tape) THEN {tape[p]}
    ELSE RandintRange(-max_shift_days, max_shift_days)

\* what calls p, p+1, ..., p+n-1 can return
RECURSIVE Draws(_, _)
Draws(p, n) ==
    IF n = 0 THEN {<<>>}
    ELSE {<<v>> \o rest : v \in NextValues(p), rest \in Draws(p + 1, n - 1)}

\* the tape, with the values vs given from call p on
Extend(tp, p, vs) ==
    [q \in 1..(IF p + Len(vs) - 1 > Len(tp) THEN p + Len(vs) - 1 ELSE Len(tp)) |->
        IF q <= Len(tp) THEN tp[q] ELSE vs[q - p + 1]]

\* the messages shift_date logs for the matches ms
ShiftLog(ms) ==
    (IF \E q \in 1..Len(ms) : ~ms[q].parsed
     THEN {"WARNING invalid date format or value"} ELSE {})
    \cup
    (IF \E q \in 1..Len(ms) : ms[q].parsed /\ ms[q].shifted = 0
     THEN {"ERROR shifting date"} ELSE {})

ProcessLine ==
    /\ pc = "loop"
    /\ pending # <<>>
    /\ \E n \in {DrawsIn(Head(pending), max_shift_days, date_format)} :
       \E vs \in Draws(drawn + 1, n) :
       \E r \in {Sub(Head(pending), max_shift_days, date_format, vs)} :
          /\ outFile' = [outFile EXCEPT !.content = @ \o WriteText(r.text)]
          /\ drawn' = drawn + r.used
          /\ matches' = matches \o
                [q \in 1..Len(r.matches) |->
                    [r.matches[q] EXCEPT !.draw = IF @ = 0 THEN 0 ELSE drawn + @]]
          /\ tape' = Extend(tape, drawn + 1, vs)
          /\ log' = log \cup ShiftLog(r.matches)
    /\ pending' = Tail(pending)
    /\ UNCHANGED <<config, pc, encoding, infile, outfile, run, first>>

\* what the file can hold of the text written through the handle once the
\* run has failed: the text is in the handle's buffer until it is flushed,
\* and a flush that fails leaves the part that reached the file
Flushed(text) == {SubSeq(text, 1, k) : k \in 0..Len(text)}

\* reading, encoding or writing raises (a write raises when the buffer is
\* flushed, at the latest when the with statement closes the handle): the
\* with statement closes both handles, line 107 logs the error
LineFails ==
    /\ pc = "loop"
    /\ \E kept \in Flushed(outFile.content) :
           outFile' = [outFile EXCEPT !.content = kept]
    /\ infile' = "closed"
    /\ outfile' = "closed"
    /\ log' = log \cup {"ERROR during anonymization"}
    /\ pc' = "exit"
    /\ UNCHANGED <<config, encoding, pending, drawn, tape, matches, run, first>>

\* the end of the file: the with statement closes both handles, line 105
Complete ==
    /\ pc = "loop"
    /\ pending = <<>>
    /\ infile' = "closed"
    /\ outfile' = "closed"
    /\ log' = log \cup {"INFO successfully anonymized"}
    /\ pc' = "exit"
    /\ UNCHANGED <<config, outFile, encoding, pending, drawn, tape, matches, run, first>>

(***************************************************************************)
(* After a successful run the program is run again with the same           *)
(* arguments on the same input.                                            *)
(***************************************************************************)
Succeeded == pc = "exit" /\ "INFO successfully anonymized" \in log

Rerun ==
    /\ Succeeded
    /\ run = 1
    /\ run' = 2
    /\ first' = [done |-> TRUE, success |-> Succeeded,
                 content |-> outFile.content, matches |-> matches]
    /\ pc' = "main"
    /\ encoding' = encoding
    /\ infile' = "unopened"
    /\ outfile' = "unopened"
    /\ pending' = <<>>
    /\ drawn' = 0
    /\ log' = {}
    /\ matches' = <<>>
    /\ tape' = IF Seeded THEN tape ELSE <<>>
    /\ UNCHANGED <<config, outFile>>

Next ==
    \/ Validate
    \/ CheckInput
    \/ ResolveEncoding
    \/ OpenInput
    \/ OpenInputFails
    \/ OpenOutput
    \/ OpenOutputFails
    \/ ProcessLine
    \/ LineFails
    \/ Complete

Spec == Init /\ [][Next]_vars

\* Two runs in a row with a seed: the configurations in which the seed is
\* given, the arguments are valid, the encoding is given and the output is
\* another file than the input (the second run reads what the first read).
InitSeeded ==
    /\ Init
    /\ ~same_path
    /\ Seeded
    /\ max_shift_days > 0
    /\ inFile.exists
    /\ encoding # None
    /\ ~outFile.exists

SpecTwice == InitSeeded /\ [][Next \/ Rerun]_vars

(***************************************************************************)
(* Helpers of the properties.                                              *)
(***************************************************************************)
Idx == 1..Len(matches)

Abs(x) == IF x < 0 THEN -x ELSE x

FatalError == "ERROR during anonymization"

\* the tokens the scanner's pattern matches in text, left to right
RECURSIVE TokensFrom(_, _)
TokensFrom(text, i) ==
    IF i > Len(text) THEN <<>>
    ELSE IF MatchAt(text, i)
         THEN <<SubSeq(text, i, i + TokenLen - 1)>> \o TokensFrom(text, i + TokenLen)
         ELSE TokensFrom(text, i + 1)

RECURSIVE Flatten(_)
Flatten(ls) == IF ls = <<>> THEN <<>> ELSE Head(ls) \o Flatten(Tail(ls))

\* the matches a step records
Fresh == SubSeq(matches', Len(matches) + 1, Len(matches'))

\* a step of the loop that processes the next line
LineStep == pc = "loop" /\ pending # <<>> /\ pc' = "loop"

\* a step that processes a line hands every token of that line, in order,
\* to replace_date
ScanComplete ==
    LineStep =>
        /\ pending' = Tail(pending)
        /\ [q \in 1..Len(Fresh) |-> Fresh[q].tok] = TokensFrom(Head(pending), 1)

\* how many of the first q matches parsed
ParsedUpTo(q) == Cardinality({r \in 1..q : matches[r].parsed})

\* text with its k-th, (k+1)-th, ... tokens replaced by outs[k], outs[k+1], ...
RECURSIVE ReplaceTokens(_, _, _, _)
ReplaceTokens(text, i, outs, k) ==
    IF i > Len(text) THEN <<>>
    ELSE IF MatchAt(text, i)
         THEN outs[k] \o ReplaceTokens(text, i + TokenLen, outs, k + 1)
         ELSE <<text[i]>> \o ReplaceTokens(text, i + 1, outs, k)

\* the date a rendered text shows, read field by field whatever the width
\* of its fields (0 when the text does not have the format's fields)
RECURSIVE DigitRun(_, _)
DigitRun(s, i) ==
    IF i <= Len(s) /\ IsDigit(s[i]) THEN 1 + DigitRun(s, i + 1) ELSE 0

RECURSIVE ReadFields(_, _, _, _, _)
ReadField(s, i, fmt, j, acc, n) ==
    IF n = 0 THEN ParseFail
    ELSE ReadFields(s, i + n, fmt, j + 1,
                    SetField(acc, fmt[j], IntOf(SubSeq(s, i, i + n - 1))))

ReadFields(s, i, fmt, j, acc) ==
    IF j > Len(fmt) THEN (IF i > Len(s) THEN acc ELSE ParseFail)
    ELSE IF IsDirective(fmt[j]) THEN ReadField(s, i, fmt, j, acc, DigitRun(s, i))
    ELSE IF i <= Len(s) /\ s[i] = fmt[j] THEN ReadFields(s, i + 1, fmt, j + 1, acc)
    ELSE ParseFail

ShownOrdinal(text, fmt) ==
    LET r == DateOf(ReadFields(text, 1, fmt, 1, ParseStart))
    IN  IF r.ok THEN Ymd2Ord(r.year, r.month, r.day) ELSE 0

(***************************************************************************)
(* C1. Determinism: with a seed, a second run with the same arguments on   *)
(* the same input that completes writes the same output as the first, and  *)
(* replaces every matched token by the same string.                        *)
(***************************************************************************)
Determinism ==
    (run = 2 /\ Succeeded) =>
        /\ first.success
        /\ outFile.content = first.content
        /\ matches = first.matches

DeterminismWitness ==
    /\ run = 2
    /\ Succeeded
    /\ Len(matches) >= 2
    /\ \E q \in Idx : matches[q].shifted # 0 /\ matches[q].shift # 0
    /\ outFile.content # WriteText(Flatten(ReadLines(inFile.content)))

(***************************************************************************)
(* C2. Range bound: every date that a step emits for a token is at most    *)
(* max_shift_days days away from the date the token shows, and the drawn   *)
(* shift is in -max_shift_days..max_shift_days.                            *)
(***************************************************************************)
RangeBoundStep ==
    \A q \in 1..Len(Fresh) :
        Fresh[q].shifted # 0 =>
            /\ max_shift_days > 0
            /\ Fresh[q].shift \in (-max_shift_days)..max_shift_days
            /\ Fresh[q].orig = ShownOrdinal(Fresh[q].tok, date_format)
            /\ Abs(ShownOrdinal(Fresh[q].out, date_format) - Fresh[q].orig)
                   <= max_shift_days

RangeBound == [][RangeBoundStep]_vars

RangeBoundWitness ==
    /\ \E q \in Idx :
           /\ matches[q].shifted # 0
           /\ ShownOrdinal(matches[q].out, date_format) - matches[q].orig = max_shift_days
    /\ \E q \in Idx :
           /\ matches[q].shifted # 0
           /\ matches[q].orig - ShownOrdinal(matches[q].out, date_format) = max_shift_days

(***************************************************************************)
(* C3. Passthrough on malformed match: a token that does not parse (an     *)
(* impossible date such as 2023-02-30) is written unchanged and the step   *)
(* does not end the run; every step of the loop handles every token of its *)
(* line, those that parse and fit being replaced by the shifted date, and  *)
(* the run succeeds only when every line has been processed.               *)
(***************************************************************************)
PassthroughStep ==
    /\ \A q \in 1..Len(Fresh) :
           /\ Fresh[q].tok = TokImpossible => ~Fresh[q].parsed
           /\ ~Fresh[q].parsed => Fresh[q].out = Fresh[q].tok
           /\ Fresh[q].shifted # 0 =>
                  Fresh[q].out = Strftime(Ord2Ymd(Fresh[q].shifted), date_format)
    /\ ScanComplete
    /\ LineStep =>
           outFile'.content =
               outFile.content \o
               WriteText(ReplaceTokens(Head(pending), 1,
                                       [q \in 1..Len(Fresh) |-> Fresh[q].out], 1))
    /\ Fresh # <<>> => pc' = "loop"
    /\ Succeeded' => pending' = <<>>

PassthroughOnMalformed == [][PassthroughStep]_vars

PassthroughWitness ==
    /\ Succeeded
    /\ date_format = FmtDefault
    /\ Len(matches) = 2
    /\ matches[1].tok = TokImpossible
    /\ matches[1].out = TokImpossible
    /\ matches[2].shifted # 0 /\ matches[2].out # matches[2].tok
    /\ Len(ReadLines(inFile.content)) = 2

(***************************************************************************)
(* C4. Non-date content preserved: the output of a completed run is the    *)
(* input with each matched token replaced and everything else, line        *)
(* terminators included, reproduced as it was.                             *)
(***************************************************************************)
NonDateContentPreserved ==
    Succeeded =>
        outFile.content =
            ReplaceTokens(inFile.content, 1, [q \in Idx |-> matches[q].out], 1)

(***************************************************************************)
(* C5. Format decoupling, as claimed: under every date_format other than   *)
(* the default, every matched token fails to parse and is left unchanged.  *)
(***************************************************************************)
FormatDecouplingAnyFormat ==
    date_format # FmtDefault =>
        \A q \in Idx : ~matches[q].parsed /\ matches[q].out = matches[q].tok

(***************************************************************************)
(* C5, amended: the scanner matches the same tokens whatever the format;   *)
(* under %d/%m/%Y every matched token fails to parse, is left unchanged    *)
(* and draws nothing; under any format a token that fails to parse under   *)
(* it is left unchanged, and one that parses is drawn for.                 *)
(***************************************************************************)
FormatDecouplingStep ==
    /\ ScanComplete
    /\ date_format = FmtSlash =>
           /\ drawn' = 0
           /\ \A q \in 1..Len(Fresh) : ~Fresh[q].parsed /\ Fresh[q].out = Fresh[q].tok
    /\ \A q \in 1..Len(Fresh) :
           /\ Fresh[q].parsed = Strptime(Fresh[q].tok, date_format).ok
           /\ Fresh[q].parsed = Fresh[q].drew
           /\ ~Fresh[q].parsed => Fresh[q].out = Fresh[q].tok

FormatDecoupling == [][FormatDecouplingStep]_vars

FormatDecouplingWitness ==
    /\ Succeeded
    /\ date_format = FmtSlash
    /\ Len(matches) = 2
    /\ matches[1].tok = TokLeap /\ matches[1].out = TokLeap
    /\ matches[2].tok = TokFirst /\ matches[2].out = TokFirst

(***************************************************************************)
(* C6. Draw accounting: at every point of the run the number of values     *)
(* drawn is the number of processed tokens that parsed; a token that does  *)
(* not parse draws nothing; the k-th token that parsed took the k-th value *)
(* of the stream, and when it is shifted it is shifted by that value.      *)
(***************************************************************************)
DrawAccounting ==
    /\ drawn = ParsedUpTo(Len(matches))
    /\ \A q \in Idx :
           IF matches[q].parsed
           THEN /\ matches[q].drew
                /\ matches[q].draw = ParsedUpTo(q)
                /\ matches[q].draw <= Len(tape)
                /\ matches[q].shift = tape[matches[q].draw]
                /\ matches[q].shifted # 0 =>
                       matches[q].shifted = matches[q].orig + tape[matches[q].draw]
           ELSE ~matches[q].drew /\ matches[q].draw = 0

DrawAccountingWitness ==
    /\ Len(matches) = 3
    /\ matches[1].parsed /\ matches[1].draw = 1
    /\ ~matches[2].parsed
    /\ matches[3].parsed /\ matches[3].draw = 2 /\ matches[3].shifted # 0
    /\ drawn = 2

(***************************************************************************)
(* C7. Fatal pre-checks: no step of the checks (max_shift_days, the        *)
(* existence of the input, the encoding) touches the output file or opens  *)
(* a handle; an invalid max_shift_days, a missing input and a detection    *)
(* that gives nothing (as for an empty input) each end the run there with  *)
(* an error logged.                                                        *)
(***************************************************************************)
PrecheckStep ==
    pc \in {"main", "anonymize", "encoding"} =>
        /\ outFile' = outFile
        /\ infile' = "unopened"
        /\ outfile' = "unopened"
        /\ (pc = "main" /\ max_shift_days <= 0) =>
               /\ pc' = "exit"
               /\ "ERROR max_shift_days must be a positive integer" \in log'
        /\ (pc = "anonymize" /\ ~inFile.exists) =>
               /\ pc' = "exit"
               /\ "ERROR input file not found" \in log'
        /\ (pc = "encoding" /\ encoding = None
                /\ (encoding' = None \/ inFile.content = <<>>)) =>
               /\ pc' = "exit"
               /\ "ERROR could not detect file encoding" \in log'
        /\ pc' = "exit" => "INFO successfully anonymized" \notin log'

FatalPrechecks == [][PrecheckStep]_vars

FatalPrechecksWitness ==
    /\ pc = "exit"
    /\ "ERROR could not detect file encoding" \in log
    /\ inFile.exists
    /\ inFile.content = <<>>
    /\ outFile.exists
    /\ outFile.content = <<"o", "l", "d">>

(***************************************************************************)
(* C8. Round-trip legality: every shifted date emitted parses back under   *)
(* the configured format to a date within max_shift_days of the original.  *)
(***************************************************************************)
RoundTripLegality ==
    \A q \in Idx :
        matches[q].shifted # 0 =>
            LET back == Strptime(matches[q].out, date_format)
            IN  /\ back.ok
                /\ Abs(Ymd2Ord(back.year, back.month, back.day) - matches[q].orig)
                       <= max_shift_days

(***************************************************************************)
(* C9. Resource closure: when the run is over no handle is open, whether   *)
(* it completed, the output could not be opened after the input was, or a  *)
(* line failed; a failed run has logged the error and not the success.     *)
(***************************************************************************)
ResourceClosure ==
    pc = "exit" =>
        /\ infile # "open"
        /\ outfile # "open"
        /\ Succeeded => (infile = "closed" /\ outfile = "closed" /\ FatalError \notin log)
        /\ (infile = "closed" /\ ~Succeeded) => FatalError \in log

ResourceClosureWitness ==
    /\ pc = "exit"
    /\ infile = "closed"
    /\ outfile = "unopened"
    /\ FatalError \in log
    /\ ~Succeeded

(***************************************************************************)
(* C10. Overflow after a draw: a token that parses but whose shifted date  *)
(* is not representable is written unchanged, the run goes on, and the     *)
(* draw is consumed: the next token that parses takes the next value.      *)
(***************************************************************************)
OverflowAfterDraw ==
    \A q \in Idx :
        (matches[q].parsed /\ matches[q].shifted = 0) =>
            /\ matches[q].out = matches[q].tok
            /\ matches[q].drew
            /\ matches[q].draw = ParsedUpTo(q)
            /\ matches[q].draw >= 1
            /\ tape[matches[q].draw] = matches[q].shift
            /\ LET o == matches[q].orig + matches[q].shift
               IN  o < 1 \/ o > MaxOrdinal
            /\ pc \in {"loop", "exit"}
            /\ pc = "exit" => (Succeeded \/ FatalError \in log)
            /\ \A r \in Idx :
                   (r > q /\ matches[r].parsed /\ ParsedUpTo(r) = ParsedUpTo(q) + 1) =>
                       matches[r].draw = matches[q].draw + 1

OverflowAfterDrawWitness ==
    /\ Succeeded
    /\ Len(matches) >= 2
    /\ matches[1].parsed /\ matches[1].shifted = 0 /\ matches[1].out = matches[1].tok
    /\ matches[2].shifted # 0 /\ matches[2].draw = 2
    /\ matches[2].out # matches[2].tok

=============================================================================
